---- MODULE Spec2Model ----
(***************************************************************************)
(* Model of the theme-voting system.                                       *)
(*                                                                         *)
(*   server  (crates/server/src/main.rs): the themes and votes tables,     *)
(*           verify_jwt, get_next_theme and submit_vote.                   *)
(*   client  (crates/client/src/main.rs): authenticate(), its poll loop,   *)
(*           the spawned callback listener and callback_handler.           *)
(*                                                                         *)
(* Spec     runs the server handlers, one whole request per step.          *)
(* SpecAuth runs one authenticate() invocation against arbitrary callback  *)
(*          requests, with time in milliseconds since `start`.             *)
(***************************************************************************)
EXTENDS Integers, Sequences, FiniteSets, TLC

\* ------------------------------------------------------------------ bounds
\* Theme ids range over 1..MaxThemes; the catalog is any subset of them.
MaxThemes == 2
\* The store's clock (NOW(), Utc::now()) advances by one per executed upsert
\* and stops at MaxClock.
MaxClock == 2
\* Granularity of the passage of time in the handshake, in ms.
TickMs == 250
\* Number of callback requests one handshake may receive.
MaxCallbacks == 2

\* ------------------------------------------------------- program constants
\* tokio::time::Duration::from_secs(120), in ms
TimeoutMs == 120000
\* tokio::time::Duration::from_millis(500)
PollMs == 500

\* ------------------------------------------------------------------ values
\* Subjects (claims.sub) of verified tokens.
Users == {"alice", "bob"}
\* ["yes", "no", "skip"]
VoteTypes == {"yes", "no", "skip"}
\* vote_type is a free String in VoteRequest: some values outside VoteTypes.
OtherVoteTypes == {"maybe"}
ThemeIds == 1..MaxThemes
\* struct Theme { id, content }
Theme(i) == [id |-> i, content |-> <<"theme", i>>]

\* The Authorization header of a request: absent, not a bearer credential, a
\* bearer token that fails verification, or a token that verifies to
\* (sub, exp).
NoHeader == [kind |-> "none", sub |-> "", exp |-> 0]
NotBearer == [kind |-> "basic", sub |-> "", exp |-> 0]
Forged == [kind |-> "forged", sub |-> "", exp |-> 0]
Signed(u, e) == [kind |-> "signed", sub |-> u, exp |-> e]
\* claims.exp of the signed tokens in use: one that expires during the run, one
\* that outlives it.
Expiries == {1, MaxClock}
Headers == {NoHeader, NotBearer, Forged} \cup {Signed(u, e) : u \in Users, e \in Expiries}

VARIABLES
    \* server
    themes,       \* table themes: set of Theme rows
    votes,        \* table votes: set of rows [user_id, theme_id, vote_type, created_at]
    clock,        \* the current time of the store and of the server
    resp,         \* the request handled last (op, and once verified its subject,
                  \* theme_id and vote_type) and the response to it
    recorded,     \* history: recorded[u][t] = vote_type of the last successful record(u, t, _)
    \* client
    token_store,  \* Arc<Mutex<Option<String>>>: {} (None) or {token} (Some)
    listener,     \* "unbound", "serving", "aborting" (abort requested), "stopped"
    authPc,       \* "start", "sleeping", "returned"
    now,          \* ms elapsed since `start`
    wakeAt,       \* when the current sleep completes
    result,       \* what authenticate() returned
    returnedAt,   \* `now` when authenticate() returned
    nCallbacks,   \* callback requests handled so far
    lastCb,       \* history: the callback request handled last
    cbAge,        \* history: ms since that request was handled, saturating at AgeCap
    lastToken,    \* history: the access_token of the last request that carried
                  \* one while authenticate() was polling, {} if none did
    tokenAge,     \* history: ms since that request was handled, saturating at AgeCap
    tokenWrites,  \* history: number of writes of Some(token) into token_store
    cellWrites,   \* history: number of assignments to token_store, of Some or None
    \* client, voting_loop
    loopPc,       \* "idle", "fetch", "prompt", "over", "done", "quit", "failed"
    loopToken,    \* the Authorization header built from `token`
    loopTheme,    \* the theme on display: {} or {theme}
    loopLog,      \* history: the answers of fetch_next_theme, in order, for as
                  \* long as loopStrict
    loopStrict,   \* history: every fetch but the first followed a vote
    \* server, requests in flight
    reqs,         \* reqs[i]: how far submit_vote has come on request i, the
                  \* request it verified and its response
    upsertLog,    \* history: the requests whose upsert has executed, in order
    storeLog      \* history: storeLog[c + 1] is the votes table after c upserts
                  \* of requests in flight

serverVars == <<themes, votes, clock, resp, recorded>>
clientVars == <<token_store, listener, authPc, now, wakeAt, result, returnedAt,
                nCallbacks, lastCb, cbAge, lastToken, tokenAge, tokenWrites, cellWrites>>
loopVars == <<loopPc, loopToken, loopTheme, loopLog, loopStrict>>
concVars == <<reqs, upsertLog, storeLog>>
vars == <<serverVars, clientVars, loopVars, concVars>>

\* ================================================================== server
\* The store answers every statement: a failed statement (AppError::Database,
\* status 500) is a fault of the store, not a step of the handlers below.

\* enum AppError and its IntoResponse; Ok(...) is status 200.
Unauthorized == [status |-> 401, msg |-> "Unauthorized - Invalid or missing JWT token"]
BadRequest(m) == [status |-> 400, msg |-> m]

\* (mutant) the exp claim is not validated
is_expired_never(exp) == FALSE
\* Utc::now().timestamp() > exp
is_expired(exp) == clock > exp

\* What the Authorization header of a request carries when it arrives: no
\* header, no Bearer prefix, a token that does not verify, or a verified token
\* whose expiry lies in the past or not.
Presented(h) ==
    IF h.kind = "signed" THEN (IF h.exp < clock THEN "expired" ELSE "valid") ELSE h.kind

\* verify_jwt: the subject, or the error the handler returns with `?`.
verify_jwt(h) ==
    IF h.kind = "none" THEN [ok |-> FALSE, sub |-> "", err |-> BadRequest("no auth")]
    ELSE IF h.kind = "basic" THEN [ok |-> FALSE, sub |-> "", err |-> BadRequest("no bearer")]
    ELSE IF h.kind = "forged" THEN [ok |-> FALSE, sub |-> "", err |-> Unauthorized]
    ELSE IF is_expired(h.exp) THEN [ok |-> FALSE, sub |-> "", err |-> Unauthorized]
    ELSE [ok |-> TRUE, sub |-> h.sub, err |-> Unauthorized]

\* An error response of operation op.
Failure(op, e) ==
    [op |-> op, cred |-> "", sub |-> "", theme_id |-> 0, vote_type |-> "",
     status |-> e.status, msg |-> e.msg, theme |-> {}, total |-> 0, seen |-> 0]

\* SELECT COUNT(*) FROM themes
CountThemes == Cardinality(themes)

\* (mutant) the WHERE user_id = $1 clause is dropped
AllVoteRows(u) == votes
\* SELECT theme_id FROM votes WHERE user_id = $1 : one element per row.
VotedRows(u) == {r \in votes : r.user_id = u}
\* (mutant) skipped themes are not counted as voted
VotedThemeIdsNoSkip(u) == {r.theme_id : r \in {x \in VotedRows(u) : x.vote_type # "skip"}}
VotedThemeIds(u) == {r.theme_id : r \in VotedRows(u)}

\* SELECT id, content FROM themes ORDER BY RANDOM() LIMIT 1
AllCandidates == themes

\* (mutant) the WHERE clause is dropped
UnfilteredCandidates(voted) == themes
\* (mutant) WHERE id NOT IN (SELECT theme_id FROM votes): anyone's votes exclude
UnvotedByAnyone(voted) == {th \in themes : \A r \in votes : r.theme_id # th.id}
\* SELECT id, content FROM themes WHERE id != ALL($1) ORDER BY RANDOM() LIMIT 1
UnvotedCandidates(voted) == {th \in themes : \A v \in voted : th.id # v}

\* (mutant) the selection without the exclusion branch
CandidatesAlwaysAll(voted) == AllCandidates
\* The rows the selection may return.
Candidates(voted) == IF voted = {} THEN AllCandidates ELSE UnvotedCandidates(voted)

\* (mutant) LIMIT 1 without ORDER BY RANDOM(): the row of lowest id
PicksFirst(voted) ==
    IF Candidates(voted) = {} THEN {{}}
    ELSE {{th} : th \in {c \in Candidates(voted) : \A d \in Candidates(voted) : c.id <= d.id}}
\* fetch_optional of the selected row: None when there is no candidate.
Picks(voted) == IF Candidates(voted) = {} THEN {{}} ELSE {{th} : th \in Candidates(voted)}

\* GET /themes/next
GetNextTheme(h) ==
    LET auth == verify_jwt(h) IN
    /\ IF ~auth.ok
       THEN resp' = [Failure("next", auth.err) EXCEPT !.cred = Presented(h)]
       ELSE \E pick \in Picks(VotedThemeIds(auth.sub)) :
                resp' = [op |-> "next", cred |-> Presented(h), sub |-> auth.sub, theme_id |-> 0, vote_type |-> "",
                         status |-> 200, msg |-> "",
                         theme |-> pick, total |-> CountThemes,
                         seen |-> Cardinality(VotedRows(auth.sub))]
    /\ UNCHANGED <<themes, votes, clock, recorded>>
    /\ UNCHANGED clientVars

\* (mutant) every vote_type is accepted
AnyVoteType(v) == TRUE
\* ["yes", "no", "skip"].contains(&vote_req.vote_type.as_str())
ValidVoteType(v) == v \in VoteTypes

\* (mutant) the theme is not looked up
AnyThemeExists(t) == TRUE
\* SELECT EXISTS(SELECT 1 FROM themes WHERE id = $1)
ThemeExists(t) == \E th \in themes : th.id = t

\* (mutant) a plain INSERT, without the ON CONFLICT clause
InsertOnly(rows, u, t, v, ts) ==
    rows \cup {[user_id |-> u, theme_id |-> t, vote_type |-> v, created_at |-> ts]}
\* (mutant) DO UPDATE SET created_at = NOW(): the vote_type is not replaced
UpsertStamp(rows, u, t, v, ts) ==
    IF \E r \in rows : r.user_id = u /\ r.theme_id = t
    THEN {IF r.user_id = u /\ r.theme_id = t THEN [r EXCEPT !.created_at = ts] ELSE r : r \in rows}
    ELSE rows \cup {[user_id |-> u, theme_id |-> t, vote_type |-> v, created_at |-> ts]}
\* (mutant) ON CONFLICT (theme_id): the conflict ignores the user
UpsertOnTheme(rows, u, t, v, ts) ==
    IF \E r \in rows : r.theme_id = t
    THEN {IF r.theme_id = t
          THEN [r EXCEPT !.vote_type = v, !.created_at = ts]
          ELSE r : r \in rows}
    ELSE rows \cup {[user_id |-> u, theme_id |-> t, vote_type |-> v, created_at |-> ts]}
\* (mutant) ON CONFLICT ... DO NOTHING
UpsertKeepFirst(rows, u, t, v, ts) ==
    IF \E r \in rows : r.user_id = u /\ r.theme_id = t
    THEN rows
    ELSE rows \cup {[user_id |-> u, theme_id |-> t, vote_type |-> v, created_at |-> ts]}

\* INSERT INTO votes ... ON CONFLICT (user_id, theme_id)
\* DO UPDATE SET vote_type = $3, created_at = NOW()
Upsert(rows, u, t, v, ts) ==
    IF \E r \in rows : r.user_id = u /\ r.theme_id = t
    THEN {IF r.user_id = u /\ r.theme_id = t
          THEN [r EXCEPT !.vote_type = v, !.created_at = ts]
          ELSE r : r \in rows}
    ELSE rows \cup {[user_id |-> u, theme_id |-> t, vote_type |-> v, created_at |-> ts]}

\* POST /themes/vote
SubmitVote(h, t, v) ==
    LET auth == verify_jwt(h) IN
    /\ IF ~auth.ok
       THEN /\ resp' = [Failure("vote", auth.err) EXCEPT !.cred = Presented(h)]
            /\ UNCHANGED <<votes, clock, recorded>>
       ELSE IF ~ValidVoteType(v)
       THEN /\ resp' = [Failure("vote", BadRequest("Invalid vote type")) EXCEPT
                            !.cred = Presented(h), !.sub = auth.sub, !.theme_id = t, !.vote_type = v]
            /\ UNCHANGED <<votes, clock, recorded>>
       ELSE IF ~ThemeExists(t)
       THEN /\ resp' = [Failure("vote", BadRequest("Theme not found")) EXCEPT
                            !.cred = Presented(h), !.sub = auth.sub, !.theme_id = t, !.vote_type = v]
            /\ UNCHANGED <<votes, clock, recorded>>
       ELSE /\ clock < MaxClock
            /\ clock' = clock + 1
            /\ votes' = Upsert(votes, auth.sub, t, v, clock')
            /\ recorded' = [recorded EXCEPT ![auth.sub][t] = v]
            /\ resp' = [op |-> "vote", cred |-> Presented(h), sub |-> auth.sub, theme_id |-> t, vote_type |-> v,
                        status |-> 200, msg |-> "", theme |-> {}, total |-> 0, seen |-> 0]
    /\ UNCHANGED themes
    /\ UNCHANGED clientVars

NoResponse == [op |-> "none", cred |-> "", sub |-> "", theme_id |-> 0, vote_type |-> "",
               status |-> 0, msg |-> "", theme |-> {}, total |-> 0, seen |-> 0]

ServerInit ==
    /\ themes \in {{Theme(i) : i \in ids} : ids \in SUBSET ThemeIds}
    /\ votes = {}
    /\ clock = 0
    /\ resp = NoResponse
    /\ recorded = [u \in Users |-> [t \in ThemeIds |-> "none"]]

\* ================================================================== client

\* access_token / error query parameters a browser may send to /callback.
Tokens == {"tokA", "tokB"}
Errors == {"access_denied"}
\* struct CallbackParams { access_token: Option<String>, error: Option<String> }
CallbackParams ==
    {[access_token |-> a, error |-> e] :
        a \in {{}} \cup {{t} : t \in Tokens}, e \in {{}} \cup {{d} : d \in Errors}}

\* The history clocks stop counting one past the poll interval.
AgeCap == PollMs + 1
Min(a, b) == IF a < b THEN a ELSE b

NoResult == [kind |-> "none", value |-> ""]

\* The state authenticate() is called in.
ClientIdle ==
    /\ token_store = {}
    /\ listener = "unbound"
    /\ authPc = "start"
    /\ now = 0
    /\ wakeAt = 0
    /\ result = NoResult
    /\ returnedAt = 0
    /\ nCallbacks = 0
    /\ lastCb = [access_token |-> {}, error |-> {}, polling |-> FALSE]
    /\ cbAge = AgeCap
    /\ lastToken = {}
    /\ tokenAge = AgeCap
    /\ tokenWrites = 0
    /\ cellWrites = 0

\* authenticate() up to the loop: the cell is created empty, the listener is
\* bound and its serve task spawned, `start` is taken, the first sleep begins.
AuthStart ==
    /\ authPc = "start"
    /\ token_store' = {}
    /\ listener' = "serving"
    /\ authPc' = "sleeping"
    /\ wakeAt' = now + PollMs
    /\ UNCHANGED <<now, result, returnedAt, nCallbacks, lastCb, cbAge, lastToken,
                   tokenAge, tokenWrites, cellWrites>>
    /\ UNCHANGED <<serverVars, loopVars, concVars>>

\* TcpListener::bind(...).await? fails: authenticate() returns the error; no
\* listener was started.
AuthBindFails ==
    /\ authPc = "start"
    /\ authPc' = "returned"
    /\ result' = [kind |-> "BindError", value |-> ""]
    /\ returnedAt' = now
    /\ UNCHANGED <<token_store, listener, now, wakeAt, nCallbacks, lastCb, cbAge,
                   lastToken, tokenAge, tokenWrites, cellWrites>>
    /\ UNCHANGED <<serverVars, loopVars, concVars>>

\* Time passes while authenticate() sleeps; the sleep completes at wakeAt,
\* PollMs after it began (the timer is taken to be exact).
Tick ==
    /\ authPc = "sleeping"
    /\ now < wakeAt
    /\ now' = Min(now + TickMs, wakeAt)
    /\ cbAge' = Min(cbAge + (now' - now), AgeCap)
    /\ tokenAge' = Min(tokenAge + (now' - now), AgeCap)
    /\ UNCHANGED <<token_store, listener, authPc, wakeAt, result, returnedAt,
                   nCallbacks, lastCb, lastToken, tokenWrites, cellWrites>>
    /\ UNCHANGED <<serverVars, loopVars, concVars>>

\* (mutant) the timeout built with from_millis(120)
DeadlinePassedMillis(elapsed) == elapsed > 120
\* start.elapsed() > timeout
DeadlinePassed(elapsed) == elapsed > TimeoutMs

\* server_handle.abort(): the serve task is marked for cancellation; the call
\* returns without waiting for the task to end.
Abort(l) == IF l = "serving" THEN "aborting" ELSE l

\* token_store.lock().unwrap().clone(): the read copies the cell's content.
CellAfterRead(store) == store

\* (mutant) the deadline is tested before the cell
PollOutcomeDeadlineFirst(store, elapsed) ==
    IF DeadlinePassed(elapsed) THEN "timeout"
    ELSE IF store # {} THEN "token" ELSE "sleep"
\* The two tests of an iteration, in the order of the loop body: the cell
\* first, the deadline second.
PollOutcome(store, elapsed) ==
    IF store # {} THEN "token"
    ELSE IF DeadlinePassed(elapsed) THEN "timeout" ELSE "sleep"

\* (mutant) `start` is taken again by every iteration
ElapsedRestarted(elapsed) == 0
\* `start` is taken once, before the loop: an iteration that goes back to
\* sleep leaves the elapsed time it measures from as it is.
ElapsedAfterIteration(elapsed) == elapsed

\* One iteration of the loop after its sleep: return the token if the cell
\* holds one, else fail if the deadline has passed, else sleep again.
Poll ==
    /\ authPc = "sleeping"
    /\ now = wakeAt
    /\ token_store' = CellAfterRead(token_store)
    /\ IF PollOutcome(token_store, now) = "token"
       THEN /\ listener' = Abort(listener)
            /\ result' = [kind |-> "Ok", value |-> CHOOSE t \in token_store : TRUE]
            /\ authPc' = "returned"
            /\ returnedAt' = now
            /\ UNCHANGED <<now, wakeAt>>
       ELSE IF PollOutcome(token_store, now) = "timeout"
       THEN /\ listener' = Abort(listener)
            /\ result' = [kind |-> "Timeout", value |-> "Authentication timeout (2 minutes)"]
            /\ authPc' = "returned"
            /\ returnedAt' = now
            /\ UNCHANGED <<now, wakeAt>>
       ELSE /\ now' = ElapsedAfterIteration(now)
            /\ wakeAt' = now' + PollMs
            /\ UNCHANGED <<listener, result, authPc, returnedAt>>
    /\ UNCHANGED <<nCallbacks, lastCb, cbAge, lastToken, tokenAge, tokenWrites, cellWrites>>
    /\ UNCHANGED <<serverVars, loopVars, concVars>>

\* The page callback_handler answers with.
Page(params) == IF params.error # {} THEN "Authentication Error" ELSE "Authentication Success"

\* (mutant) the first token stored is kept
StoreKeepFirst(store, params) == IF store # {} THEN store ELSE params.access_token
\* callback_handler: *store = params.access_token, whatever the request carries.
\* (The lock is never poisoned: no holder of it panics.)
StoreAfter(store, params) == params.access_token

\* GET /callback handled by the listener. Connections the serve task accepted
\* are served until the task and its connections are gone.
Callback(params) ==
    /\ listener \in {"serving", "aborting"}
    /\ nCallbacks < MaxCallbacks
    /\ token_store' = StoreAfter(token_store, params)
    /\ nCallbacks' = nCallbacks + 1
    /\ lastCb' = [access_token |-> params.access_token, error |-> params.error,
                  polling |-> authPc = "sleeping"]
    /\ cbAge' = 0
    /\ IF params.access_token # {} /\ authPc = "sleeping"
       THEN lastToken' = params.access_token /\ tokenAge' = 0
       ELSE UNCHANGED <<lastToken, tokenAge>>
    /\ tokenWrites' = tokenWrites + (IF params.access_token # {} THEN 1 ELSE 0)
    /\ cellWrites' = cellWrites + 1
    /\ UNCHANGED <<listener, authPc, now, wakeAt, result, returnedAt>>
    /\ UNCHANGED <<serverVars, loopVars, concVars>>

\* The runtime cancels the aborted serve task: the listening socket is dropped.
ListenerStop ==
    /\ listener = "aborting"
    /\ listener' = "stopped"
    /\ UNCHANGED <<token_store, authPc, now, wakeAt, result, returnedAt, nCallbacks,
                   lastCb, cbAge, lastToken, tokenAge, tokenWrites, cellWrites>>
    /\ UNCHANGED <<serverVars, loopVars, concVars>>

\* ===================================================== client: voting_loop

\* What the user types at the prompt, trimmed and lowercased; "x" stands for
\* any other line.
Choices == {"y", "n", "s", "q", "r", "x"}
\* The vote_type the match arm of a choice submits.
VoteOfChoice(choice) ==
    IF choice = "y" THEN "yes" ELSE IF choice = "n" THEN "no" ELSE "skip"

\* voting_loop is not running.
LoopIdle ==
    /\ loopPc = "idle"
    /\ loopToken = NoHeader
    /\ loopTheme = {}
    /\ loopLog = <<>>
    /\ loopStrict = TRUE

\* voting_loop(token) is entered with the token authenticate() returned.
LoopStart ==
    /\ loopPc = "fetch"
    /\ loopToken \in {Signed(u, e) : u \in Users, e \in Expiries}
    /\ loopTheme = {}
    /\ loopLog = <<>>
    /\ loopStrict = TRUE

\* fetch_next_theme(token)?, then the branch on response.theme.
LoopFetch ==
    /\ loopPc = "fetch"
    /\ GetNextTheme(loopToken)
    /\ UNCHANGED concVars
    /\ IF resp'.status # 200
       THEN /\ loopPc' = "failed"
            /\ UNCHANGED <<loopTheme, loopLog>>
       ELSE /\ loopPc' = IF resp'.theme # {} THEN "prompt" ELSE "over"
            /\ loopTheme' = resp'.theme
            /\ loopLog' = IF loopStrict
                          THEN Append(loopLog, [theme |-> resp'.theme, seen |-> resp'.seen,
                                                total |-> resp'.total])
                          ELSE loopLog
    /\ UNCHANGED <<loopToken, loopStrict>>

\* The arms "y", "n" and "s": submit_vote(theme.id, vote_type, token)?, then
\* the next iteration.
LoopVote(choice) ==
    /\ loopPc = "prompt"
    /\ choice \in {"y", "n", "s"}
    /\ \E th \in loopTheme : SubmitVote(loopToken, th.id, VoteOfChoice(choice))
    /\ UNCHANGED concVars
    /\ loopPc' = IF resp'.status = 200 THEN "fetch" ELSE "failed"
    /\ loopTheme' = {}
    /\ UNCHANGED <<loopToken, loopLog, loopStrict>>

\* The arm "q": return Ok(()).
LoopQuit(choice) ==
    /\ loopPc = "prompt"
    /\ choice = "q"
    /\ loopPc' = "quit"
    /\ UNCHANGED <<loopToken, loopTheme, loopLog, loopStrict>>
    /\ UNCHANGED <<serverVars, clientVars, concVars>>

\* The arm "r" (show_results reads the statistics) and the default arm:
\* `continue`, the next iteration fetches again with no vote cast.
LoopContinue(choice) ==
    /\ loopPc = "prompt"
    /\ choice \in {"r", "x"}
    /\ loopPc' = "fetch"
    /\ loopTheme' = {}
    /\ loopStrict' = FALSE
    /\ loopLog' = <<>>
    /\ UNCHANGED loopToken
    /\ UNCHANGED <<serverVars, clientVars, concVars>>

\* response.theme is None: the results are shown or not, then `break`.
LoopBreak ==
    /\ loopPc = "over"
    /\ loopPc' = "done"
    /\ UNCHANGED <<loopToken, loopTheme, loopLog, loopStrict>>
    /\ UNCHANGED <<serverVars, clientVars, concVars>>

\* A vote request of another user, handled between two requests of the loop.
OtherVote ==
    \E h \in Headers, t \in ThemeIds, v \in VoteTypes :
        /\ h.kind = "signed" /\ h.sub # loopToken.sub /\ h.exp = MaxClock
        /\ SubmitVote(h, t, v)
        /\ UNCHANGED <<loopVars, concVars>>

\* ============================================ server: requests in flight
\* The handlers statement by statement. The handlers are async tasks over a
\* connection pool: between two awaits of one request any statement of another
\* request may execute. One statement is atomic in the store.

\* The vote requests in flight together.
Requests == {"r1", "r2"}

\* The next request in flight with them.
NextRequests == {"n1"}

\* total, voted, nvoted: the results of get_next_theme's first two statements;
\* theme, seen: its response; beganAt, doneAt (history): the number of upserts
\* executed when the request began and when it was answered.
IdleRequest == [pc |-> "idle", sub |-> "", theme_id |-> 0, vote_type |-> "",
                status |-> 0, msg |-> "", raced |-> FALSE,
                total |-> 0, voted |-> {}, nvoted |-> 0, theme |-> {}, seen |-> 0,
                beganAt |-> 0, doneAt |-> 0]
\* Request r answered with error e.
Answered(r, e) == [r EXCEPT !.pc = "done", !.status = e.status, !.msg = e.msg]

NoRequests ==
    /\ reqs = [i \in Requests \cup NextRequests |-> IdleRequest]
    /\ upsertLog = <<>>
    /\ storeLog = <<{}>>

\* submit_vote up to its first statement: verify_jwt(...)?, then the
\* vote_type test.
VoteBegin(i, h, t, v) ==
    /\ reqs[i].pc = "idle"
    /\ LET auth == verify_jwt(h)
           req == [IdleRequest EXCEPT !.sub = auth.sub, !.theme_id = t, !.vote_type = v]
       IN reqs' = [reqs EXCEPT ![i] =
                     IF ~auth.ok THEN Answered(IdleRequest, auth.err)
                     ELSE IF ~ValidVoteType(v)
                     THEN Answered(req, BadRequest("Invalid vote type"))
                     ELSE [req EXCEPT !.pc = "exists"]]
    /\ UNCHANGED <<serverVars, clientVars, loopVars, upsertLog, storeLog>>

\* SELECT EXISTS(SELECT 1 FROM themes WHERE id = $1), then the test of its result.
VoteThemeExists(i) ==
    /\ reqs[i].pc = "exists"
    /\ reqs' = [reqs EXCEPT ![i] =
                  IF ThemeExists(reqs[i].theme_id) THEN [@ EXCEPT !.pc = "upsert"]
                  ELSE Answered(@, BadRequest("Theme not found"))]
    /\ UNCHANGED <<serverVars, clientVars, loopVars, upsertLog, storeLog>>

\* Another request for the same user and theme is between its begin and its upsert.
InFlightWith(i) ==
    \E j \in Requests \ {i} :
        /\ reqs[j].pc \in {"exists", "upsert"}
        /\ reqs[j].sub = reqs[i].sub /\ reqs[j].theme_id = reqs[i].theme_id

\* The INSERT ... ON CONFLICT (user_id, theme_id) DO UPDATE statement, then Ok.
VoteUpsert(i) ==
    /\ reqs[i].pc = "upsert"
    /\ clock < MaxClock
    /\ clock' = clock + 1
    /\ votes' = Upsert(votes, reqs[i].sub, reqs[i].theme_id, reqs[i].vote_type, clock')
    /\ recorded' = [recorded EXCEPT ![reqs[i].sub][reqs[i].theme_id] = reqs[i].vote_type]
    /\ reqs' = [reqs EXCEPT ![i] = [@ EXCEPT !.pc = "done", !.status = 200,
                                               !.raced = InFlightWith(i)]]
    /\ upsertLog' = Append(upsertLog, i)
    /\ storeLog' = Append(storeLog, votes')
    /\ UNCHANGED <<themes, resp>>
    /\ UNCHANGED <<clientVars, loopVars>>

\* get_next_theme up to its first statement: verify_jwt(...)?.
NextBegin(i, h) ==
    /\ reqs[i].pc = "idle"
    /\ LET auth == verify_jwt(h)
       IN reqs' = [reqs EXCEPT ![i] =
                     IF ~auth.ok THEN Answered([IdleRequest EXCEPT !.beganAt = clock, !.doneAt = clock],
                                               auth.err)
                     ELSE [IdleRequest EXCEPT !.pc = "count", !.sub = auth.sub,
                                              !.beganAt = clock]]
    /\ UNCHANGED <<serverVars, clientVars, loopVars, upsertLog, storeLog>>

\* SELECT COUNT(*) FROM themes
NextCount(i) ==
    /\ reqs[i].pc = "count"
    /\ reqs' = [reqs EXCEPT ![i] = [@ EXCEPT !.pc = "voted", !.total = CountThemes]]
    /\ UNCHANGED <<serverVars, clientVars, loopVars, upsertLog, storeLog>>

\* SELECT theme_id FROM votes WHERE user_id = $1, collected into a Vec.
NextVoted(i) ==
    /\ reqs[i].pc = "voted"
    /\ reqs' = [reqs EXCEPT ![i] = [@ EXCEPT !.pc = "select",
                                               !.voted = VotedThemeIds(reqs[i].sub),
                                               !.nvoted = Cardinality(VotedRows(reqs[i].sub))]]
    /\ UNCHANGED <<serverVars, clientVars, loopVars, upsertLog, storeLog>>

\* (mutant) the selection excludes by a subquery on votes, not by the Vec
SelectionExcludesNow(i) == VotedThemeIds(reqs[i].sub)
\* The ids the selection statement excludes: the Vec bound to $1.
SelectionExcludes(i) == reqs[i].voted

\* The selection statement, then the response built from the three results.
NextSelect(i) ==
    /\ reqs[i].pc = "select"
    /\ \E pick \in Picks(SelectionExcludes(i)) :
           reqs' = [reqs EXCEPT ![i] = [@ EXCEPT !.pc = "done", !.status = 200,
                                                   !.theme = pick, !.seen = reqs[i].nvoted,
                                                   !.doneAt = clock]]
    /\ UNCHANGED <<serverVars, clientVars, loopVars, upsertLog, storeLog>>

\* ========================================================== specifications

Init == ServerInit /\ ClientIdle /\ LoopIdle /\ NoRequests

NextTheme == \E h \in Headers : GetNextTheme(h) /\ UNCHANGED <<loopVars, concVars>>
Vote ==
    \E h \in Headers, t \in ThemeIds, v \in VoteTypes \cup OtherVoteTypes :
        SubmitVote(h, t, v) /\ UNCHANGED <<loopVars, concVars>>

Next == NextTheme \/ Vote

\* The server: requests handled one at a time.
Spec == Init /\ [][Next]_vars

\* The store the handshake runs beside is left alone.
InitAuth == ClientIdle /\ ServerInit /\ themes = {} /\ LoopIdle /\ NoRequests

CallbackRequest == \E params \in CallbackParams : Callback(params)

NextAuth == AuthStart \/ AuthBindFails \/ Tick \/ Poll \/ CallbackRequest \/ ListenerStop

\* One authenticate() invocation.
SpecAuth == InitAuth /\ [][NextAuth]_vars

\* The same, on a runtime that keeps time and runs the task: a sleep that has
\* begun completes, and the task is polled once its sleep has completed.
SpecAuthFair == SpecAuth /\ WF_vars(Tick) /\ WF_vars(Poll)

InitLoop == ServerInit /\ ClientIdle /\ LoopStart /\ NoRequests

LoopPrompt == \E choice \in Choices : LoopVote(choice) \/ LoopQuit(choice) \/ LoopContinue(choice)

NextLoop == LoopFetch \/ LoopPrompt \/ LoopBreak \/ OtherVote

\* One run of voting_loop by a user with no votes, beside other users' votes.
SpecLoop == InitLoop /\ [][NextLoop]_vars

VoteRequest(i) ==
    \E h \in Headers, t \in ThemeIds, v \in VoteTypes \cup OtherVoteTypes : VoteBegin(i, h, t, v)

NextConc == \E i \in Requests : VoteRequest(i) \/ VoteThemeExists(i) \/ VoteUpsert(i)

\* Vote requests handled concurrently.
SpecConc == Init /\ [][NextConc]_vars

NextRequest(i) == \E h \in Headers : NextBegin(i, h)

NextRace ==
    \/ \E i \in Requests : VoteRequest(i) \/ VoteThemeExists(i) \/ VoteUpsert(i)
    \/ \E i \in NextRequests : NextRequest(i) \/ NextCount(i) \/ NextVoted(i) \/ NextSelect(i)

\* A next request handled concurrently with vote requests.
SpecRace == Init /\ [][NextRace]_vars

\* ================================================================== claims

\* What record(u, t, v) leaves visible of the votes: created_at aside.
VoteView == {[user_id |-> r.user_id, theme_id |-> r.theme_id, vote_type |-> r.vote_type] : r \in votes}
RowsOf(u, t) == {r \in votes : r.user_id = u /\ r.theme_id = t}
VotedAll(u) == \A th \in themes : RowsOf(u, th.id) # {}

\* C1: a theme returned by next(u) is in the catalog and u has no vote row on
\* it, whatever the vote_type of u's rows.
C1_NextReturnsUnvoted ==
    (resp.op = "next" /\ resp.status = 200) =>
        \A th \in resp.theme : th \in themes /\ RowsOf(resp.sub, th.id) = {}
\* next(u) returned a theme to a user who holds a skip row.
C1_Witness ==
    /\ resp.op = "next" /\ resp.status = 200 /\ resp.theme # {}
    /\ \E r \in votes : r.user_id = resp.sub /\ r.vote_type = "skip"

\* C2: the votes table never holds two rows for one (user_id, theme_id).
C2_OneRowPerPair ==
    \A r1 \in votes, r2 \in votes :
        (r1.user_id = r2.user_id /\ r1.theme_id = r2.theme_id) => r1 = r2
\* Two upserts were executed, both on the same pair.
C2_Witness ==
    /\ Cardinality(votes) = 1
    /\ \E r \in votes : r.created_at = 2

\* The row of (u, t) holds the vote_type recorded last; no row before the first.
C3_StoredIsLatest ==
    \A u \in Users, t \in ThemeIds :
        IF recorded[u][t] = "none"
        THEN RowsOf(u, t) = {}
        ELSE /\ Cardinality(RowsOf(u, t)) = 1
             /\ \A r \in RowsOf(u, t) : r.vote_type = recorded[u][t]
\* A successful record of the vote_type the pair already holds.
C3_SameVoteTwice ==
    (/\ resp'.op = "vote" /\ resp'.status = 200
     /\ \E r \in RowsOf(resp'.sub, resp'.theme_id) : r.vote_type = resp'.vote_type)
    => VoteView' = VoteView
\* C3: the vote_type stored for (u, t) is that of the most recent successful
\* record(u, t, _), in exactly one row (yes then no leaves one row, no); and
\* recording again the vote_type already stored changes nothing of the votes
\* but created_at.
C3_Upsert == [](C3_StoredIsLatest) /\ [][C3_SameVoteTwice]_vars
\* A pair was recorded twice and holds "no".
C3_Witness ==
    /\ clock = 2 /\ Cardinality(votes) = 1
    /\ \E r \in votes : r.vote_type = "no" /\ r.created_at = 2

\* The answer to a verified vote request with a vote_type outside VoteTypes.
C4_InvalidTypeAnswer ==
    (resp.op = "vote" /\ resp.sub \in Users /\ resp.vote_type \notin VoteTypes) =>
        (resp.status = 400 /\ resp.msg = "Invalid vote type")
\* The step that handles such a request.
C4_InvalidTypeStep ==
    (resp'.op = "vote" /\ resp'.sub \in Users /\ resp'.vote_type \notin VoteTypes) =>
        (votes' = votes /\ themes' = themes)
\* C4: record(u, t, v) with v outside {yes, no, skip} answers 400 "Invalid
\* vote type" and changes no table, for every t, in the catalog or not, voted
\* by u or not.
C4_InvalidTypeRejected == [](C4_InvalidTypeAnswer) /\ [][C4_InvalidTypeStep]_vars
\* An invalid vote_type was rejected for a user who has voted.
C4_Witness ==
    /\ resp.op = "vote" /\ resp.msg = "Invalid vote type"
    /\ resp.vote_type \notin VoteTypes
    /\ RowsOf(resp.sub, resp.theme_id) # {}

\* A verified vote request with a valid vote_type on a theme_id not in the catalog.
C5_UnknownThemeRequest ==
    /\ resp.op = "vote" /\ resp.sub \in Users
    /\ resp.vote_type \in VoteTypes /\ Theme(resp.theme_id) \notin themes
C5_UnknownThemeAnswer ==
    C5_UnknownThemeRequest => (resp.status = 400 /\ resp.msg = "Theme not found")
C5_UnknownThemeStep ==
    C5_UnknownThemeRequest' => (votes' = votes /\ themes' = themes)
\* C5: record(u, t, v) with v valid and t not in the catalog answers 400
\* "Theme not found" and changes no table.
C5_UnknownThemeRejected == [](C5_UnknownThemeAnswer) /\ [][C5_UnknownThemeStep]_vars
\* A vote on an unknown theme was rejected while the table holds votes.
C5_Witness ==
    /\ C5_UnknownThemeRequest /\ resp.msg = "Theme not found"
    /\ VotedRows(resp.sub) # {}

\* C6 (as claimed): once a callback request with an error description has been
\* handled during the handshake, the cell holds an outcome and authenticate()
\* fails with ProviderError(description) at its next poll, at most PollMs later.
C6_ProviderErrorEndsHandshake ==
    \A d \in Errors :
        (lastCb.polling /\ lastCb.error = {d}) =>
            /\ token_store # {}
            /\ authPc = "sleeping" => cbAge <= PollMs
            /\ authPc = "returned" => result = [kind |-> "ProviderError", value |-> d]

\* C7: authenticate() fails with Timeout no earlier than TimeoutMs and no later
\* than TimeoutMs + PollMs after `start`; with no token ever written to the
\* cell, Timeout is the only way a started handshake returns.
C7_TimeoutWindow ==
    /\ result.kind = "Timeout" =>
           (TimeoutMs <= returnedAt /\ returnedAt <= TimeoutMs + PollMs)
    /\ (authPc = "returned" /\ result.kind # "BindError" /\ tokenWrites = 0) =>
           result.kind = "Timeout"
\* A handshake that received callback requests, none with a token, timed out.
C7_Witness ==
    /\ result.kind = "Timeout" /\ tokenWrites = 0 /\ nCallbacks > 0

\* C8 (as claimed): when authenticate() has returned after starting the
\* listener, the listener has stopped: it handles no more callback requests.
C8_ListenerStoppedOnReturn ==
    (authPc = "returned" /\ result.kind # "BindError") => listener = "stopped"

\* C9 (as claimed): once a callback request with access_token = t has been
\* handled during the handshake, the cell holds t until authenticate() returns
\* Ok(t) at its next poll, at most PollMs later (t the latest such token).
C9_TokenReturnedAtNextPoll ==
    \A t \in Tokens :
        lastToken = {t} =>
            /\ authPc = "sleeping" => (token_store = {t} /\ tokenAge <= PollMs)
            /\ authPc = "returned" => result = [kind |-> "Ok", value |-> t]

\* C10: next(u) for a user with a vote row on every theme of the catalog answers
\* 200 with theme = null (and seen = total).
C10_ExhaustedReturnsNull ==
    (resp.op = "next" /\ resp.sub \in Users /\ VotedAll(resp.sub)) =>
        /\ resp.status = 200 /\ resp.theme = {}
        /\ resp.seen = resp.total
\* next(u) answered null to a user who voted on both themes of a catalog.
C10_Witness ==
    /\ resp.op = "next" /\ resp.status = 200 /\ resp.theme = {}
    /\ Cardinality(themes) = 2 /\ VotedAll(resp.sub) /\ resp.seen = 2

\* C11: in a response of next(u), seen is the number of distinct themes u has a
\* vote row on, of any vote_type, rows of other users not counted, and total
\* is the number of themes of the catalog.
C11_SeenAndTotal ==
    (resp.op = "next" /\ resp.status = 200) =>
        /\ resp.seen = Cardinality({r.theme_id : r \in {x \in votes : x.user_id = resp.sub}})
        /\ resp.total = Cardinality({th.id : th \in themes})
\* next(u) answered seen = 1 while another user holds a row too.
C11_Witness ==
    /\ resp.op = "next" /\ resp.status = 200 /\ resp.seen = 1
    /\ \E r \in votes : r.user_id # resp.sub

\* next(u) for a verified u answers th.
C16_NextReturns(u, th) ==
    \E h \in Headers : /\ verify_jwt(h).ok /\ h.sub = u
                        /\ GetNextTheme(h) /\ resp'.theme = {th}
                        /\ UNCHANGED <<loopVars, concVars>>
\* C16: every catalog theme u has no vote row on is a possible answer of
\* next(u) (the part of the uniform choice that is not a probability).
C16_EveryCandidatePossible ==
    \A u \in Users, th \in themes :
        RowsOf(u, th.id) = {} => ENABLED C16_NextReturns(u, th)
\* next(u) answered one of two remaining themes.
C16_Witness ==
    /\ resp.op = "next" /\ resp.status = 200 /\ resp.theme # {}
    /\ Cardinality({th \in themes : RowsOf(resp.sub, th.id) = {}}) = 2
    /\ votes # {}

\* C17: next(u) answers a theme whenever the catalog holds one u has no vote row
\* on, whether u has voted on none or on some.
C17_RemainingReturnsTheme ==
    (resp.op = "next" /\ resp.sub \in Users
     /\ \E th \in themes : RowsOf(resp.sub, th.id) = {}) =>
        resp.theme # {}
\* next(u) answered a theme to a user who has voted on another one.
C17_Witness ==
    /\ resp.op = "next" /\ resp.status = 200 /\ resp.theme # {}
    /\ resp.seen > 0

\* A successful record(u, t, v) leaves every row of another pair, and the
\* catalog, as they were; on a pair already voted it leaves u's seen set as it was.
C18_VoteFrameStep ==
    (resp'.op = "vote" /\ resp'.status = 200) =>
        /\ themes' = themes
        /\ {r \in votes' : ~(r.user_id = resp'.sub /\ r.theme_id = resp'.theme_id)}
             = {r \in votes : ~(r.user_id = resp'.sub /\ r.theme_id = resp'.theme_id)}
        /\ RowsOf(resp'.sub, resp'.theme_id) # {} =>
               /\ {r.theme_id : r \in {x \in votes' : x.user_id = resp'.sub}}
                    = {r.theme_id : r \in {x \in votes : x.user_id = resp'.sub}}
               /\ Cardinality({x \in votes' : x.user_id = resp'.sub})
                    = Cardinality({x \in votes : x.user_id = resp'.sub})
\* C18: a successful record(u, t, v) changes only the vote row of (u, t): the
\* rows of other users and of u on other themes and the catalog are unchanged,
\* and a re-vote leaves u's seen set and seen count unchanged.
C18_VoteFrame == [][C18_VoteFrameStep]_vars
\* A vote was recorded on a theme another user holds a row on.
C18_Witness ==
    /\ resp.op = "vote" /\ resp.status = 200
    /\ \E r \in votes : r.user_id # resp.sub /\ r.theme_id = resp.theme_id

\* The step on which authenticate() returns.
AuthReturns == authPc = "sleeping" /\ authPc' = "returned"
\* The step of one iteration of the polling loop.
AuthPolls == authPc = "sleeping" /\ now = wakeAt /\ (authPc' # authPc \/ wakeAt' # wakeAt)

\* A return with Timeout found the cell empty, and an iteration that finds a
\* token in the cell returns it, the deadline passed or not.
C19_TokenBeforeDeadlineStep ==
    /\ (AuthReturns /\ result'.kind = "Timeout") => token_store = {}
    /\ (AuthPolls /\ token_store # {}) =>
           /\ authPc' = "returned"
           /\ result'.kind = "Ok"
           /\ {result'.value} = token_store
\* C19: authenticate() fails with Timeout only if the cell holds no outcome at
\* its final poll; on an iteration where the cell holds a token and the
\* deadline has passed as well, the token is returned.
C19_TokenBeforeDeadline == [][C19_TokenBeforeDeadlineStep]_vars
\* A token stored after the deadline and before the last poll was returned.
C19_Witness ==
    /\ result.kind = "Ok"
    /\ returnedAt > TimeoutMs
    /\ returnedAt - tokenAge > TimeoutMs

\* A return with Ok(t) gives the access_token of the latest callback request
\* handled, and an iteration leaves the cell as it found it.
C20_LastWriteReturnedStep ==
    /\ (AuthReturns /\ result'.kind = "Ok") =>
           /\ nCallbacks > 0
           /\ lastCb.access_token = {result'.value}
           /\ result'.value \in Tokens
    /\ AuthPolls => token_store' = token_store
\* C20: authenticate() returns Ok(t) only if t is the access_token of the most
\* recent callback request handled before the poll that observed it, never a
\* value no callback carried, and a polling read does not consume or alter
\* the cell.
C20_LastWriteReturned == [][C20_LastWriteReturnedStep]_vars
\* Two callbacks carried a token and the token of the later one was returned.
C20_Witness ==
    /\ result.kind = "Ok"
    /\ tokenWrites = 2
    /\ nCallbacks = 2
    /\ lastCb.polling
    /\ lastCb.access_token = {result.value}
    /\ token_store = {result.value}

\* The answer to a request whose token does not verify or has expired is the
\* one Unauthorized answer, which carries nothing of the store.
C13_UnauthorizedAnswer ==
    resp.cred \in {"forged", "expired"} =>
        /\ resp.status = 401
        /\ resp.msg = "Unauthorized - Invalid or missing JWT token"
        /\ resp.sub = "" /\ resp.theme = {} /\ resp.total = 0 /\ resp.seen = 0
\* Handling such a request leaves the store as it was.
C13_UnauthorizedStep ==
    resp'.cred \in {"forged", "expired"} => (votes' = votes /\ themes' = themes)
\* C13: a next or vote request whose bearer token fails verification, or whose
\* verified expiry is in the past, gets the single Unauthorized outcome, the
\* same for both causes, with nothing read from the votes and the store unchanged.
C13_BadTokenUnauthorized == []C13_UnauthorizedAnswer /\ [][C13_UnauthorizedStep]_vars
\* A vote with an expired token was refused while the store holds votes.
C13_Witness ==
    /\ resp.op = "vote" /\ resp.cred = "expired" /\ resp.status = 401
    /\ votes # {}

\* C14: during one authenticate() the cell is initialised empty and written at
\* most once, whatever callback requests arrive, the redirect that carries the
\* result only in the fragment included.
C14_CellWrittenAtMostOnce ==
    /\ (authPc = "sleeping" /\ cellWrites = 0) => token_store = {}
    /\ cellWrites <= 1

\* The themes the loop was shown, in order.
LoopShown == SelectSeq(loopLog, LAMBDA e : e.theme # {})
\* C12: for a catalog of N themes and a user with no votes, alternating next()
\* and a vote on the theme it returned gives N pairwise distinct themes with
\* seen = 0, 1, ..., N-1 and total = N each time, and the (N+1)-th next()
\* gives no theme with seen = N.
C12_LoopSeesEachThemeOnce ==
    loopStrict =>
        /\ Len(loopLog) <= Cardinality(themes) + 1
        /\ \A k \in 1..Len(loopLog) :
               /\ loopLog[k].seen = k - 1
               /\ loopLog[k].total = Cardinality(themes)
               /\ (loopLog[k].theme = {}) <=> (k = Cardinality(themes) + 1)
               /\ loopLog[k].theme \subseteq themes
        /\ \A j, k \in 1..Len(loopLog) :
               (j # k /\ loopLog[j].theme # {}) => loopLog[j].theme # loopLog[k].theme
\* A catalog of MaxThemes themes was voted through and the last fetch gave none.
C12_Witness ==
    /\ loopStrict
    /\ Cardinality(themes) = MaxThemes
    /\ Len(loopLog) = MaxThemes + 1
    /\ loopLog[Len(loopLog)] = [theme |-> {}, seen |-> MaxThemes, total |-> MaxThemes]
    /\ Len(LoopShown) = MaxThemes

\* The requests whose upsert on (u, t) has executed, in the order of execution.
UpsertsOn(u, t) ==
    SelectSeq(upsertLog, LAMBDA i : reqs[i].sub = u /\ reqs[i].theme_id = t)
\* C15: under every interleaving of concurrent vote requests of one user on one
\* theme, once their upserts have executed the store holds exactly one row of
\* the pair, with the vote_type of the request whose upsert executed last.
C15_ConcurrentLastWriteWins ==
    \A u \in Users, t \in ThemeIds :
        LET done == UpsertsOn(u, t) IN
        IF done = <<>> THEN RowsOf(u, t) = {}
        ELSE /\ Cardinality(RowsOf(u, t)) = 1
             /\ \A r \in RowsOf(u, t) :
                    /\ r.vote_type = reqs[done[Len(done)]].vote_type
                    /\ r.vote_type \in {reqs[done[k]].vote_type : k \in 1..Len(done)}
\* Two requests of one user on one theme with different vote_types were in
\* flight together and both upserts have executed.
C15_Witness ==
    /\ Len(upsertLog) = 2
    /\ reqs[upsertLog[1]].raced
    /\ reqs[upsertLog[1]].sub = reqs[upsertLog[2]].sub
    /\ reqs[upsertLog[1]].theme_id = reqs[upsertLog[2]].theme_id
    /\ reqs[upsertLog[1]].vote_type # reqs[upsertLog[2]].vote_type
    /\ \A i \in Requests : reqs[i].pc = "done" /\ reqs[i].status = 200

\* While authenticate() has not returned, a step leaves a token in a cell that
\* holds one.
C22_CellKeepsTokenStep ==
    (authPc = "sleeping" /\ authPc' = "sleeping" /\ token_store # {}) => token_store' # {}
\* C22 (as claimed): once the cell holds a token during a handshake it holds a
\* token in every later state until authenticate() returns; no later callback
\* request, one without an access_token included, empties the cell.
C22_CellKeepsToken == [][C22_CellKeepsTokenStep]_vars

\* C21: every authenticate() whose listener was bound eventually returns, with
\* a token or an error, whatever callback requests arrive and however they
\* interleave with the polls.
C21_AuthEventuallyReturns == (authPc = "sleeping") ~> (authPc = "returned")
\* A handshake returned after a token was delivered and then cleared again by
\* a later callback request.
C21_Witness ==
    /\ authPc = "returned"
    /\ result.kind = "Timeout"
    /\ tokenWrites > 0
    /\ nCallbacks = MaxCallbacks

\* The ids of the themes u has a vote row on after c upserts.
VotedAt(u, c) == {r.theme_id : r \in {x \in storeLog[c + 1] : x.user_id = u}}
\* The answer of request i is what the store held after c upserts.
C23_ConsistentAt(i, c) ==
    /\ reqs[i].seen = Cardinality(VotedAt(reqs[i].sub, c))
    /\ reqs[i].total = Cardinality(themes)
    /\ reqs[i].theme \subseteq themes
    /\ \A th \in reqs[i].theme : th.id \notin VotedAt(reqs[i].sub, c)
    /\ reqs[i].theme = {} => \A th \in themes : th.id \in VotedAt(reqs[i].sub, c)
\* C23: with a fixed catalog, under every interleaving of the three statements
\* of a next(u) request with concurrent vote requests of any users, the answer
\* is consistent with the store at one moment during the request (seen is u's
\* vote count, total the catalog size, the theme unvoted by u, no theme only if
\* u had voted on all), and seen <= total.
C23_NextConsistentAtOneMoment ==
    \A i \in NextRequests :
        (reqs[i].pc = "done" /\ reqs[i].status = 200) =>
            /\ \E c \in reqs[i].beganAt .. reqs[i].doneAt : C23_ConsistentAt(i, c)
            /\ reqs[i].seen <= reqs[i].total
\* A next request answered a theme its user voted on, by a concurrent request,
\* before the answer was built.
C23_Witness ==
    \E i \in NextRequests :
        /\ reqs[i].pc = "done" /\ reqs[i].status = 200
        /\ \E th \in reqs[i].theme : th.id \in VotedAt(reqs[i].sub, reqs[i].doneAt)
        /\ reqs[i].beganAt < reqs[i].doneAt

====
